---------------------------- MODULE Spec2Model ----------------------------
(***************************************************************************)
(* A model of sema (src/src/main.rs): the status widget that samples the   *)
(* battery, the volume and the wifi/bluetooth/microphone state, encodes    *)
(* them as pixel bars in a matrix, and blits the matrix, rotated by 90     *)
(* degrees counter-clockwise, into the frame buffer of its window.  A      *)
(* timer thread posts a Refresh event every REFRESH_RATE seconds; the      *)
(* event loop of the main thread handles it.  src/src/status.rs holds the  *)
(* samplers of a second front end, whose callers are not in the source;    *)
(* it is not modelled.                                                     *)
(*                                                                         *)
(* Text is modelled as a sequence of one-character strings, a pixel as a   *)
(* tuple of its four bytes, a bar as a function from 0..BAR_LENGTH-1 to    *)
(* pixels and the matrix as a function from 0..REAL_WIDTH-1 to bars, so    *)
(* indices are those of the source.  An f32 fraction is the pair           *)
(* <<numerator, denominator>> of an exact quotient: BAR_LENGTH is a power  *)
(* of two, so the product BAR_LENGTH * percent is exact in f32 and its     *)
(* floor is the floor of the quotient for every value drawn here.          *)
(***************************************************************************)
EXTENDS Integers, Sequences, FiniteSets, TLC

VARIABLES
    matrix,     \* main: `matrix`, the canvas of REAL_WIDTH bars
    frame,      \* the frame buffer of `pixels`, in chunks of 4 bytes
    done,       \* the AtomicBool `done` / `should_exit`
    queue,      \* Refresh events sent through the proxy and not yet handled
    timerPc,    \* position of the timer thread
    mainPc,     \* position of the main thread
    event,      \* the event the main thread is handling
    writeIdx,   \* refresh: the index `i` of its loop over `bars`
    sample,     \* refresh: what the five samplers returned last
    failure,    \* the call that panicked or returned an error, if any
    call,       \* encoder runs: the call made and its arguments
    ret         \* encoder runs: what the call returned

vars == <<matrix, frame, done, queue, timerPc, mainPc, event, writeIdx,
          sample, failure, call, ret>>

---------------------------------------------------------------------------
(* Constants of main.rs *)

SCALE_FACTOR == 2

N_BARS == 3

BAR_THICKNESS == 2

MARGIN == 2

INNER_HEIGHT == 16

INNER_WIDTH == N_BARS * BAR_THICKNESS

WIN_HEIGHT == INNER_HEIGHT + MARGIN

WIN_WIDTH == INNER_WIDTH + MARGIN

BAR_LENGTH == INNER_HEIGHT * SCALE_FACTOR

BAR_GIRTH == BAR_THICKNESS * SCALE_FACTOR

REAL_WIDTH == WIN_WIDTH * SCALE_FACTOR

COLOR_URGENT == <<207, 73, 85, 255>>

COLOR_WARN == <<251, 192, 17, 255>>

COLOR_OK == <<10, 140, 108, 255>>

COLOR_BG == <<22, 22, 22, 255>>

COLOR_MUTE == <<119, 119, 119, 255>>

COLOR_NORMAL == <<37, 108, 207, 255>>

\* The pixel [0; 4] that `matrix` and the composite bar are initialised with.
ZeroPixel == <<0, 0, 0, 0>>

\* The frame buffer PixelsBuilder::new allocates: WIN_WIDTH * SCALE_FACTOR by
\* WIN_HEIGHT * SCALE_FACTOR pixels.
FramePixels == (WIN_WIDTH * SCALE_FACTOR) * (WIN_HEIGHT * SCALE_FACTOR)

---------------------------------------------------------------------------
(* Text *)

Digits == <<"0", "1", "2", "3", "4", "5", "6", "7", "8", "9">>

IsDigit(c) == \E d \in 1..10 : Digits[d] = c

DigitValue(c) == (CHOOSE d \in 1..10 : Digits[d] = c) - 1

IsSpace(c) == c \in {" ", "\n", "\t", "\r"}

\* str::trim: without leading and trailing white space.
RECURSIVE TrimStart(_)
TrimStart(s) ==
    IF s # <<>> /\ IsSpace(Head(s)) THEN TrimStart(Tail(s)) ELSE s

RECURSIVE TrimEnd(_)
TrimEnd(s) ==
    IF s # <<>> /\ IsSpace(s[Len(s)])
    THEN TrimEnd(SubSeq(s, 1, Len(s) - 1))
    ELSE s

Trim(s) == TrimEnd(TrimStart(s))

\* str::contains: `t` occurs in `s` as a contiguous run.
Contains(s, t) ==
    \E k \in 1..(Len(s) - Len(t) + 1) : SubSeq(s, k, k + Len(t) - 1) = t

\* str::parse::<f32> of a run of digits (at most three: exact in f32).
RECURSIVE ParseNumber(_)
ParseNumber(s) ==
    IF s = <<>> THEN 0
    ELSE 10 * ParseNumber(SubSeq(s, 1, Len(s) - 1)) + DigitValue(s[Len(s)])

\* The regex (\d{1,3})% matches at position k with n digits.
MatchesAt(s, k, n) ==
    /\ k + n <= Len(s)
    /\ \A j \in k..(k + n - 1) : IsDigit(s[j])
    /\ s[k + n] = "%"

\* PERCENT_RE.captures: the leftmost match and, there, the longest run of
\* digits the greedy \d{1,3} can take; <<>> when nothing matches (None).
Captures(s) ==
    LET starts == {k \in 1..Len(s) : \E n \in 1..3 : MatchesAt(s, k, n)}
    IN  IF starts = {} THEN <<>>
        ELSE LET k == CHOOSE a \in starts : \A b \in starts : a <= b
                 n == CHOOSE a \in {m \in 1..3 : MatchesAt(s, k, m)} :
                          \A b \in {m \in 1..3 : MatchesAt(s, k, m)} : b <= a
             IN  <<SubSeq(s, k, k + n - 1)>>

---------------------------------------------------------------------------
(* The bar encoder and the samplers *)

\* A command's outcome: its exit status and what it wrote to stdout.
Output(success, stdout) == [success |-> success, stdout |-> stdout]

\* cmd panics when the command exits unsuccessfully.
cmdPanics(output) == ~output.success

\* cmd returns the trimmed stdout otherwise.
cmd(output) == Trim(output.stdout)

\* The filled length rounded to the nearest pixel instead of floored.
filledRounded(percent) ==
    LET product ==
            (2 * BAR_LENGTH * percent[1] + percent[2]) \div (2 * percent[2])
    IN  IF product < 0 THEN 0 ELSE product

\* `(BAR_LENGTH as f32 * percent).floor() as usize`: the cast saturates, so a
\* negative product gives 0.
filled(percent) ==
    LET product == (BAR_LENGTH * percent[1]) \div percent[2]
    IN  IF product < 0 THEN 0 ELSE product

\* `bar[filled..]` panics when filled is beyond the end of the bar.
barPanics(percent) == filled(percent) > BAR_LENGTH

\* bar: the fill colour everywhere, then COLOR_BG from `filled` on.
bar(percent, fill_color) ==
    [px \in 0..(BAR_LENGTH - 1) |->
        IF px >= filled(percent) THEN COLOR_BG ELSE fill_color]

\* [color; BAR_LENGTH]
Solid(color) == [px \in 0..(BAR_LENGTH - 1) |-> color]

\* bluetooth: COLOR_NORMAL when `bt` prints "on".
bluetoothPanics(btOut) == cmdPanics(btOut)

bluetooth(btOut) ==
    IF cmd(btOut) = <<"o", "n">> THEN COLOR_NORMAL ELSE COLOR_BG

\* mic: COLOR_BG when `mute status` prints "yes".
micPanics(muteOut) == cmdPanics(muteOut)

mic(muteOut) ==
    IF cmd(muteOut) = <<"y", "e", "s">> THEN COLOR_BG ELSE COLOR_URGENT

\* wifi: `mullvad status` is run only when /usr/bin/wifi prints "on".
wifiPanics(wifiOut, mullvadOut) ==
    \/ cmdPanics(wifiOut)
    \/ /\ Contains(cmd(wifiOut), <<"o", "n">>)
       /\ cmdPanics(mullvadOut)

wifi(wifiOut, mullvadOut) ==
    IF ~Contains(cmd(wifiOut), <<"o", "n">>) THEN COLOR_BG
    ELSE IF Contains(cmd(mullvadOut),
                     <<"C", "o", "n", "n", "e", "c", "t", "e", "d">>)
         THEN COLOR_OK
         ELSE COLOR_URGENT

\* volume: the fraction volume / 100 of the first percentage pactl prints.
volumePercent(sinkVolumeOut) ==
    <<ParseNumber(Captures(cmd(sinkVolumeOut))[1]), 100>>

\* volume panics when either pactl call fails, when the output holds no
\* percentage, and when bar does.
volumePanics(sinkMuteOut, sinkVolumeOut) ==
    \/ cmdPanics(sinkMuteOut)
    \/ cmdPanics(sinkVolumeOut)
    \/ Captures(cmd(sinkVolumeOut)) = <<>>
    \/ barPanics(volumePercent(sinkVolumeOut))

volume(sinkMuteOut, sinkVolumeOut) ==
    LET muted == Contains(cmd(sinkMuteOut), <<"y", "e", "s">>)
        fill_color == IF muted THEN COLOR_MUTE ELSE COLOR_NORMAL
    IN  bar(volumePercent(sinkVolumeOut), fill_color)

\* What the battery crate answers: `result` is "Ok", "Err" (Manager::new,
\* batteries or the first battery is an error) or "None" (no battery at all),
\* `state` the battery::State and `charge` the state_of_charge.
BatteryQuery(result, state, charge) ==
    [result |-> result, state |-> state, charge |-> charge]

\* battery returns Err on a query error.
batteryErr(query) == query.result = "Err"

\* battery panics when there is no battery, and when bar does.
batteryPanics(query) ==
    \/ query.result = "None"
    \/ /\ query.result = "Ok"
       /\ query.state \in {"Charging", "Discharging"}
       /\ barPanics(query.charge)

battery(query) ==
    CASE query.state = "Full" -> Solid(COLOR_OK)
      [] query.state = "Charging" -> bar(query.charge, COLOR_OK)
      [] query.state = "Discharging" ->
            LET color == IF query.charge[1] * 10 <= query.charge[2]
                         THEN COLOR_URGENT
                         ELSE COLOR_WARN
            IN  bar(query.charge, color)
      [] OTHER -> Solid(COLOR_BG)

---------------------------------------------------------------------------
(* refresh, rot90ccw and draw *)

wifi_length == 10

bt_length == 6

mic_length == 6

\* slice[lo..hi].fill(value), on a bar or on the matrix.
Fill(slice, lo, hi, value) ==
    [k \in DOMAIN slice |-> IF lo <= k /\ k < hi THEN value ELSE slice[k]]

\* The first bar started from the background colour instead of [0; 4].
SegmentBarOnBackground(wifiColor, btColor, micColor) ==
    LET bar0 == Solid(COLOR_BG)
        bar1 == Fill(bar0, 0, wifi_length, wifiColor)
        bar2 == Fill(bar1, BAR_LENGTH - bt_length, BAR_LENGTH, btColor)
    IN  Fill(bar2, BAR_LENGTH - bt_length - mic_length - 1,
             BAR_LENGTH - bt_length - 1, micColor)

\* refresh: the first bar, with its wifi, bluetooth and microphone segments.
SegmentBar(wifiColor, btColor, micColor) ==
    LET bar0 == Solid(ZeroPixel)
        bar1 == Fill(bar0, 0, wifi_length, wifiColor)
        bar2 == Fill(bar1, BAR_LENGTH - bt_length, BAR_LENGTH, btColor)
    IN  Fill(bar2, BAR_LENGTH - bt_length - mic_length - 1,
             BAR_LENGTH - bt_length - 1, micColor)

\* What the samplers returned: three colours and two bars.
Sampled(wifiColor, btColor, micColor, volumeBar, batteryBar) ==
    [wifi |-> wifiColor, bluetooth |-> btColor, mic |-> micColor,
     volume |-> volumeBar, battery |-> batteryBar]

\* The array `bars` in the order battery, volume, first bar.
barsBatteryFirst(s) ==
    [i \in 0..(N_BARS - 1) |->
        CASE i = 0 -> s.battery
          [] i = 1 -> s.volume
          [] OTHER -> SegmentBar(s.wifi, s.bluetooth, s.mic)]

\* refresh: the array `bars`, indexed from 0 as in the source.
bars(s) ==
    [i \in 0..(N_BARS - 1) |->
        CASE i = 0 -> SegmentBar(s.wifi, s.bluetooth, s.mic)
          [] i = 1 -> s.volume
          [] OTHER -> s.battery]

\* refresh: one round of its loop, mat[x..(x + BAR_GIRTH - 1)].fill(bar).
WriteBar(mat, i, b) ==
    LET x == i * BAR_GIRTH
    IN  Fill(mat, x, x + BAR_GIRTH - 1, b)

\* The loop left after its first round.
LoopEndsEarly(i) == i >= 1

\* refresh: the loop ends after the last of `bars`.
LoopEnds(i) == i = N_BARS

\* rot90ccw: the columns from last to first and, for each, every row.
RECURSIVE RotateFrom(_, _)
RotateFrom(mat, col) ==
    IF col < 0 THEN <<>>
    ELSE [row \in 1..REAL_WIDTH |-> mat[row - 1][col]]
         \o RotateFrom(mat, col - 1)

\* The columns from first to last: the iterator without its .rev().
RECURSIVE RotateUpTo(_, _)
RotateUpTo(mat, col) ==
    IF col < 0 THEN <<>>
    ELSE RotateUpTo(mat, col - 1)
         \o [row \in 1..REAL_WIDTH |-> mat[row - 1][col]]

rot90cw(mat) == RotateUpTo(mat, BAR_LENGTH - 1)

rot90ccw(mat) == RotateFrom(mat, BAR_LENGTH - 1)

\* draw: each 4-byte chunk of the frame takes the next pixel of the rotated
\* matrix; zip stops at the shorter of the two.
draw(mat, buffer) ==
    LET rotated == rot90ccw(mat)
    IN  [k \in DOMAIN buffer |->
            IF k < Len(rotated) THEN rotated[k + 1] ELSE buffer[k]]

---------------------------------------------------------------------------
(* What the commands and the battery crate may answer *)

\* Refresh events the proxy may hold unhandled.
MaxQueue == 1

\* pactl reports the volumes 75%, 150%, ... up to 75 * MaxVolumeStep percent.
MaxVolumeStep == 2

RECURSIVE Decimal(_)
Decimal(n) ==
    IF n < 10 THEN <<Digits[n + 1]>>
    ELSE Decimal(n \div 10) \o <<Digits[(n % 10) + 1]>>

Failed == Output(FALSE, <<>>)

\* /usr/bin/wifi and bt print "on" or "off".
SwitchOutputs ==
    {Failed, Output(TRUE, <<"o", "n", "\n">>),
     Output(TRUE, <<"o", "f", "f", "\n">>)}

\* mullvad status prints "Connected" or "Disconnected".
MullvadOutputs ==
    {Failed,
     Output(TRUE, <<"C", "o", "n", "n", "e", "c", "t", "e", "d", "\n">>),
     Output(TRUE, <<"D", "i", "s", "c", "o", "n", "n", "e", "c", "t", "e",
                    "d", "\n">>)}

\* mute status prints "yes" or "no".
MuteOutputs ==
    {Failed, Output(TRUE, <<"y", "e", "s", "\n">>),
     Output(TRUE, <<"n", "o", "\n">>)}

\* pactl get-sink-mute prints "Mute: yes" or "Mute: no".
SinkMuteOutputs ==
    {Failed,
     Output(TRUE, <<"M", "u", "t", "e", ":", " ", "y", "e", "s", "\n">>),
     Output(TRUE, <<"M", "u", "t", "e", ":", " ", "n", "o", "\n">>)}

\* pactl get-sink-volume prints the raw volume, then the percentage.
SinkVolumeText(percent) ==
    <<"6", "5", "5", "3", "6", " ", "/", " ", " ">> \o Decimal(percent)
        \o <<"%", " ", "/", " ", "0", " ", "d", "B", "\n">>

SinkVolumeOutputs ==
    {Failed, Output(TRUE, <<"n", "o", " ", "s", "i", "n", "k", "\n">>)}
        \cup {Output(TRUE, SinkVolumeText(75 * k)) : k \in 1..MaxVolumeStep}

BatteryQueries ==
    {BatteryQuery("Err", "Unknown", <<0, 1>>),
     BatteryQuery("None", "Unknown", <<0, 1>>),
     BatteryQuery("Ok", "Full", <<1, 1>>),
     BatteryQuery("Ok", "Discharging", <<1, 2>>)}

\* How a call ends: with a value, or in a panic.
Returned(value) == [panicked |-> FALSE, value |-> value]

Panicked == [panicked |-> TRUE]

\* wifi(), for every answer of /usr/bin/wifi and mullvad.
WifiReturns ==
    {IF wifiPanics(wifiOut, mullvadOut) THEN Panicked
     ELSE Returned(wifi(wifiOut, mullvadOut)) :
        wifiOut \in SwitchOutputs, mullvadOut \in MullvadOutputs}

\* bluetooth(), for every answer of bt.
BluetoothReturns ==
    {IF bluetoothPanics(btOut) THEN Panicked
     ELSE Returned(bluetooth(btOut)) : btOut \in SwitchOutputs}

\* mic(), for every answer of mute.
MicReturns ==
    {IF micPanics(muteOut) THEN Panicked
     ELSE Returned(mic(muteOut)) : muteOut \in MuteOutputs}

\* volume(), for every answer of the two pactl calls.
VolumeReturns ==
    {IF volumePanics(sinkMuteOut, sinkVolumeOut) THEN Panicked
     ELSE Returned(volume(sinkMuteOut, sinkVolumeOut)) :
        sinkMuteOut \in SinkMuteOutputs, sinkVolumeOut \in SinkVolumeOutputs}

\* battery().expect(..) of refresh, for every answer of the battery crate.
BatteryReturns ==
    {IF batteryErr(query) \/ batteryPanics(query) THEN Panicked
     ELSE Returned(battery(query)) : query \in BatteryQueries}

---------------------------------------------------------------------------
(* The main thread *)

NoSample ==
    Sampled(ZeroPixel, ZeroPixel, ZeroPixel, Solid(ZeroPixel),
            Solid(ZeroPixel))

NoCall == [fn |-> "none"]

NoRet == [pending |-> TRUE]

\* The process has ended: main returned or panicked.
Ended == mainPc \in {"panicked", "failed", "terminated"}

\* event_loop.run has returned and dropped the event loop.
LoopClosed == mainPc \in {"exited", "join", "terminated"}

\* A panic of the main thread: the process ends with `matrix` as it was.
Panic(what) ==
    /\ mainPc' = "panicked"
    /\ failure' = what
    /\ UNCHANGED <<matrix, frame, done, queue, timerPc, event, writeIdx,
                   sample, call, ret>>

\* refresh: the samplers have all returned; the loop over `bars` is next.
Sample(s) ==
    /\ sample' = s
    /\ writeIdx' = 0
    /\ mainPc' = "refresh_write"
    /\ UNCHANGED <<matrix, frame, done, queue, timerPc, event, failure,
                   call, ret>>

\* refresh, up to its loop: wifi, bluetooth, mic, volume and battery are
\* called in this order, and the first panic ends the process.
RefreshSample ==
    /\ mainPc = "refresh_sample"
    /\ \E wifiRet \in WifiReturns :
        IF wifiRet.panicked THEN Panic("wifi")
        ELSE \E btRet \in BluetoothReturns :
        IF btRet.panicked THEN Panic("bluetooth")
        ELSE \E micRet \in MicReturns :
        IF micRet.panicked THEN Panic("mic")
        ELSE \E volumeRet \in VolumeReturns :
        IF volumeRet.panicked THEN Panic("volume")
        ELSE \E batteryRet \in BatteryReturns :
        IF batteryRet.panicked THEN Panic("battery")
        ELSE Sample(Sampled(wifiRet.value, btRet.value, micRet.value,
                            volumeRet.value, batteryRet.value))

\* refresh: one round of the loop over `bars`; after the last, refresh
\* returns, to main on the first call and to the Refresh handler later.
RefreshWrite ==
    /\ mainPc = "refresh_write"
    /\ matrix' = WriteBar(matrix, writeIdx, bars(sample)[writeIdx])
    /\ writeIdx' = writeIdx + 1
    /\ mainPc' = IF ~LoopEnds(writeIdx + 1) THEN "refresh_write"
                 ELSE IF event = "Init" THEN "setup" ELSE "draw"
    /\ UNCHANGED <<frame, done, queue, timerPc, event, sample, failure,
                   call, ret>>

\* main: the window and `pixels` are built and the event loop starts, or
\* building fails and main ends (unwrap, `?`).
Setup ==
    /\ mainPc = "setup"
    /\ \E built \in BOOLEAN :
        IF built
        THEN /\ mainPc' = "run"
             /\ event' = "None"
             /\ UNCHANGED failure
        ELSE /\ mainPc' = "failed"
             /\ failure' = "setup"
             /\ UNCHANGED event
    /\ UNCHANGED <<matrix, frame, done, queue, timerPc, writeIdx, sample,
                   call, ret>>

\* Event::UserEvent(Refresh): the handler calls refresh first.
UserEvent ==
    /\ mainPc = "run"
    /\ queue > 0
    /\ queue' = queue - 1
    /\ event' = "Refresh"
    /\ mainPc' = "refresh_sample"
    /\ UNCHANGED <<matrix, frame, done, timerPc, writeIdx, sample, failure,
                   call, ret>>

\* A redraw handler that calls refresh first, as the Refresh handler does.
RedrawResamples ==
    /\ mainPc = "run"
    /\ event' = "RedrawRequested"
    /\ mainPc' = "refresh_sample"
    /\ UNCHANGED <<matrix, frame, done, queue, timerPc, writeIdx, sample,
                   failure, call, ret>>

\* WindowEvent::RedrawRequested: the handler draws what `matrix` holds.
RedrawRequested ==
    /\ mainPc = "run"
    /\ event' = "RedrawRequested"
    /\ mainPc' = "draw"
    /\ UNCHANGED <<matrix, frame, done, queue, timerPc, writeIdx, sample,
                   failure, call, ret>>

\* WindowEvent::CloseRequested: target.exit().
CloseRequested ==
    /\ mainPc = "run"
    /\ mainPc' = "exited"
    /\ UNCHANGED <<matrix, frame, done, queue, timerPc, event, writeIdx,
                   sample, failure, call, ret>>

\* Any other event: `_ => ()`.
OtherEvent ==
    /\ mainPc = "run"
    /\ UNCHANGED vars

\* draw(&matrix, &mut pixels) of either handler.
Draw ==
    /\ mainPc = "draw"
    /\ frame' = draw(matrix, frame)
    /\ mainPc' = "render"
    /\ UNCHANGED <<matrix, done, queue, timerPc, event, writeIdx, sample,
                   failure, call, ret>>

\* pixels.render(): on an error target.exit() ends the loop.
Render ==
    /\ mainPc = "render"
    /\ \E rendered \in BOOLEAN :
        mainPc' = IF rendered THEN "run" ELSE "exited"
    /\ event' = "None"
    /\ UNCHANGED <<matrix, frame, done, queue, timerPc, writeIdx, sample,
                   failure, call, ret>>

\* event_loop.run has returned: Ok, and done.store(true) is next, or an
\* error, on which expect panics.
StoreDone ==
    /\ mainPc = "exited"
    /\ \E ran \in BOOLEAN :
        IF ran
        THEN /\ done' = TRUE
             /\ mainPc' = "join"
             /\ UNCHANGED <<matrix, frame, queue, timerPc, event, writeIdx,
                            sample, failure, call, ret>>
        ELSE Panic("run")

\* handle.join() returns when the timer thread has finished.
Join ==
    /\ mainPc = "join"
    /\ timerPc = "finished"
    /\ mainPc' = "terminated"
    /\ UNCHANGED <<matrix, frame, done, queue, timerPc, event, writeIdx,
                   sample, failure, call, ret>>

---------------------------------------------------------------------------
(* The timer thread; it stops with the process *)

\* while !should_exit.load() { thread::sleep(..): the flag is read and,
\* when it is not set, the thread sleeps REFRESH_RATE seconds.
TimerSleep ==
    /\ ~Ended
    /\ timerPc = "load"
    /\ timerPc' = IF done THEN "finished" ELSE "send"
    /\ UNCHANGED <<matrix, frame, done, queue, mainPc, event, writeIdx,
                   sample, failure, call, ret>>

\* proxy.send_event(Refresh): an error, and the end of the thread, once the
\* event loop is gone.
TimerSend ==
    /\ ~Ended
    /\ timerPc = "send"
    /\ IF LoopClosed
       THEN /\ timerPc' = "finished"
            /\ UNCHANGED queue
       ELSE /\ queue < MaxQueue
            /\ queue' = queue + 1
            /\ timerPc' = "load"
    /\ UNCHANGED <<matrix, frame, done, mainPc, event, writeIdx, sample,
                   failure, call, ret>>

---------------------------------------------------------------------------
(* The program *)

\* main, up to its first call of refresh: the timer thread runs, `matrix`
\* is [[[0; 4]; BAR_LENGTH]; REAL_WIDTH] and the frame buffer is not
\* allocated yet (it starts zeroed).
Init ==
    /\ matrix = [x \in 0..(REAL_WIDTH - 1) |-> Solid(ZeroPixel)]
    /\ frame = [k \in 0..(FramePixels - 1) |-> ZeroPixel]
    /\ done = FALSE
    /\ queue = 0
    /\ timerPc = "load"
    /\ mainPc = "refresh_sample"
    /\ event = "Init"
    /\ writeIdx = 0
    /\ sample = NoSample
    /\ failure = "none"
    /\ call = NoCall
    /\ ret = NoRet

Next ==
    \/ RefreshSample
    \/ RefreshWrite
    \/ Setup
    \/ UserEvent
    \/ RedrawRequested
    \/ CloseRequested
    \/ OtherEvent
    \/ Draw
    \/ Render
    \/ StoreDone
    \/ Join
    \/ TimerSleep
    \/ TimerSend

Spec == Init /\ [][Next]_vars

---------------------------------------------------------------------------
(* The encoder on its own: one call of bar, volume or battery per run *)

\* bar is called with fractions n/d for every d up to MaxDenom.
MaxDenom == 8

\* pactl reports every percentage up to MaxPercent.
MaxPercent == 999

\* The colours bar is called with.
FillColors ==
    {COLOR_URGENT, COLOR_WARN, COLOR_OK, COLOR_MUTE, COLOR_NORMAL}

\* Fractions below 0, in [0, 1] and above 1.
Fractions == {<<n, d>> : n \in (0 - MaxDenom)..(2 * MaxDenom), d \in 1..MaxDenom}

\* A state of charge is a fraction in [0, 1].
Charges == {f \in Fractions : 0 <= f[1] /\ f[1] <= f[2]}

BarCalls ==
    {[fn |-> "bar", percent |-> f, fill_color |-> c] :
        f \in Fractions, c \in FillColors}

VolumeCalls ==
    {[fn |-> "volume", sinkMuteOut |-> m, sinkVolumeOut |-> v] :
        m \in SinkMuteOutputs,
        v \in SinkVolumeOutputs
              \cup {Output(TRUE, SinkVolumeText(p)) : p \in 0..MaxPercent}}

BatteryCalls ==
    {[fn |-> "battery", query |-> BatteryQuery(r, st, c)] :
        r \in {"Ok", "Err", "None"},
        st \in {"Full", "Charging", "Discharging", "Unknown"},
        c \in Charges}

InitEncoder ==
    /\ matrix = [x \in 0..(REAL_WIDTH - 1) |-> Solid(ZeroPixel)]
    /\ frame = [k \in 0..(FramePixels - 1) |-> ZeroPixel]
    /\ done = FALSE
    /\ queue = 0
    /\ timerPc = "load"
    /\ mainPc = "refresh_sample"
    /\ event = "Init"
    /\ writeIdx = 0
    /\ sample = NoSample
    /\ failure = "none"
    /\ call \in BarCalls \cup VolumeCalls \cup BatteryCalls
    /\ ret = NoRet

Returns(result) ==
    /\ ret = NoRet
    /\ ret' = result
    /\ UNCHANGED <<matrix, frame, done, queue, timerPc, mainPc, event,
                   writeIdx, sample, failure, call>>

CallBar ==
    /\ call.fn = "bar"
    /\ Returns(IF barPanics(call.percent) THEN Panicked
               ELSE Returned(bar(call.percent, call.fill_color)))

CallVolume ==
    /\ call.fn = "volume"
    /\ Returns(IF volumePanics(call.sinkMuteOut, call.sinkVolumeOut)
               THEN Panicked
               ELSE Returned(volume(call.sinkMuteOut, call.sinkVolumeOut)))

\* battery().expect(..), as refresh calls it.
CallBattery ==
    /\ call.fn = "battery"
    /\ Returns(IF batteryErr(call.query) \/ batteryPanics(call.query)
               THEN Panicked
               ELSE Returned(battery(call.query)))

NextEncoder == CallBar \/ CallVolume \/ CallBattery

SpecEncoder == InitEncoder /\ [][NextEncoder]_vars

---------------------------------------------------------------------------
(* The claims *)

\* The fraction num/den lies in [0, 1], below 0, above 1.
InUnit(f) == 0 <= f[1] /\ f[1] <= f[2]

\* The columns refresh writes for the k-th of `bars`, and the column it
\* leaves alone at the end of that run of BAR_GIRTH.
Drawn(k) == (k * BAR_GIRTH)..(k * BAR_GIRTH + BAR_GIRTH - 2)

Gutter(k) == k * BAR_GIRTH + BAR_GIRTH - 1

\* The pixels of the first bar that no segment covers.
Gaps ==
    {px \in 0..(BAR_LENGTH - 1) :
        /\ ~(px < wifi_length)
        /\ ~(px >= BAR_LENGTH - bt_length)
        /\ ~(/\ px >= BAR_LENGTH - bt_length - mic_length - 1
             /\ px < BAR_LENGTH - bt_length - 1)}

\* The matrix a completed refresh leaves for the sample s.
Composed(s) ==
    [x \in 0..(REAL_WIDTH - 1) |->
        IF \E k \in 0..(N_BARS - 1) : x \in Drawn(k)
        THEN bars(s)[x \div BAR_GIRTH]
        ELSE Solid(ZeroPixel)]

\* The frame buffer buf shows mat rotated by 90 degrees counter-clockwise:
\* row p, column q of the raster is pixel BAR_LENGTH - 1 - p of bar q.
Shows(buf, mat) ==
    \A p \in 0..(BAR_LENGTH - 1), q \in 0..(REAL_WIDTH - 1) :
        buf[p * REAL_WIDTH + q] = mat[q][BAR_LENGTH - 1 - p]

\* A refresh has completed and none is half-way through its writes.
AfterRefresh == sample # NoSample /\ mainPc # "refresh_write"

\* C1: for a fraction f in [0, 1], bar(f, fill) is a bar of BAR_LENGTH
\* pixels whose first floor(BAR_LENGTH * f) pixels are the fill colour and
\* whose other pixels are COLOR_BG; f = 1 fills all, f = 0 none, and f = 1/2
\* with COLOR_OK fills pixels 0..15 and leaves 16..31 at (22, 22, 22, 255).
C1_BarFillsFloor ==
    (call.fn = "bar" /\ ret # NoRet /\ InUnit(call.percent)) =>
        /\ ~ret.panicked
        /\ DOMAIN ret.value = 0..(BAR_LENGTH - 1)
        /\ \E n \in 0..BAR_LENGTH :
            /\ n * call.percent[2] <= BAR_LENGTH * call.percent[1]
            /\ BAR_LENGTH * call.percent[1] < (n + 1) * call.percent[2]
            /\ \A px \in 0..(BAR_LENGTH - 1) :
                ret.value[px] = IF px < n THEN call.fill_color
                                ELSE <<22, 22, 22, 255>>
        /\ call.percent[1] = call.percent[2] =>
            \A px \in 0..(BAR_LENGTH - 1) : ret.value[px] = call.fill_color
        /\ call.percent[1] = 0 =>
            \A px \in 0..(BAR_LENGTH - 1) : ret.value[px] = <<22, 22, 22, 255>>
        /\ (2 * call.percent[1] = call.percent[2]
                /\ call.fill_color = <<10, 140, 108, 255>>) =>
            /\ \A px \in 0..15 : ret.value[px] = <<10, 140, 108, 255>>
            /\ \A px \in 16..31 : ret.value[px] = <<22, 22, 22, 255>>

\* C1 witness: bar(1/2, COLOR_OK) has returned, half filled.
C1_Witness ==
    /\ call.fn = "bar"
    /\ ret # NoRet
    /\ call.percent = <<1, 2>>
    /\ call.fill_color = COLOR_OK
    /\ ~ret.panicked
    /\ ret.value[15] = COLOR_OK
    /\ ret.value[16] = COLOR_BG

\* C2: the fraction a sampler produces is clamped into [0, 1] before the
\* pixel count is derived: volume never fails to encode the percentage it
\* parsed, and above 100% it returns the bar of 100%, all fill colour.
C2_FractionClamped ==
    (/\ call.fn = "volume"
     /\ ret # NoRet
     /\ ~cmdPanics(call.sinkMuteOut)
     /\ ~cmdPanics(call.sinkVolumeOut)
     /\ Captures(cmd(call.sinkVolumeOut)) # <<>>) =>
        /\ ~ret.panicked
        /\ ~InUnit(volumePercent(call.sinkVolumeOut)) =>
            \E c \in FillColors : ret.value = Solid(c)

\* C3: after draw, the pixel of the frame buffer at row p and column q of
\* the raster, index p * REAL_WIDTH + q, is the matrix cell
\* mat[q][BAR_LENGTH - 1 - p], copied unchanged, for every p and q.
C3_BlitIsCcwRotation ==
    mainPc = "render" =>
        \A p \in 0..(BAR_LENGTH - 1), q \in 0..(REAL_WIDTH - 1) :
            frame[p * REAL_WIDTH + q] = matrix[q][BAR_LENGTH - 1 - p]

\* C3 witness: a matrix with wifi connected and bluetooth on has been
\* drawn: the last pixel of bar 0 is at the start of the frame, its first
\* pixel at the start of the last raster row.
C3_Witness ==
    /\ mainPc = "render"
    /\ matrix[0][0] = COLOR_OK
    /\ matrix[0][BAR_LENGTH - 1] = COLOR_NORMAL
    /\ frame[0] = COLOR_NORMAL
    /\ frame[(BAR_LENGTH - 1) * REAL_WIDTH] = COLOR_OK
    /\ frame[(BAR_LENGTH - 1) * REAL_WIDTH + BAR_GIRTH] = matrix[BAR_GIRTH][0]

\* C4: a sampler that fails never aborts the refresh or crashes the
\* process: no call of wifi, bluetooth, mic, volume or battery ends the
\* main thread in a panic.
C4_SamplerFailureTolerated ==
    ~(/\ mainPc = "panicked"
      /\ failure \in {"wifi", "bluetooth", "mic", "volume", "battery"})

\* C5 as claimed: after every refresh the first run of BAR_GIRTH columns
\* holds the battery bar, the second the volume bar and the third the
\* composite wifi/bluetooth/mic bar.
C5_BatteryVolumeComposite ==
    AfterRefresh =>
        /\ \A x \in Drawn(0) : matrix[x] = sample.battery
        /\ \A x \in Drawn(1) : matrix[x] = sample.volume
        /\ \A x \in Drawn(2) :
            matrix[x] = SegmentBar(sample.wifi, sample.bluetooth, sample.mic)

\* C5 as amended: after every refresh the first run of BAR_GIRTH columns
\* holds the composite wifi/bluetooth/mic bar, the second the volume bar
\* and the third the battery bar, the same after every refresh.
C5_CompositeVolumeBattery ==
    AfterRefresh =>
        /\ \A x \in Drawn(0) :
            /\ \A px \in 0..(wifi_length - 1) : matrix[x][px] = sample.wifi
            /\ \A px \in (BAR_LENGTH - bt_length)..(BAR_LENGTH - 1) :
                matrix[x][px] = sample.bluetooth
            /\ \A px \in (BAR_LENGTH - bt_length - mic_length - 1)
                             ..(BAR_LENGTH - bt_length - 2) :
                matrix[x][px] = sample.mic
        /\ \A x \in Drawn(1) : matrix[x] = sample.volume
        /\ \A x \in Drawn(2) : matrix[x] = sample.battery

\* C5 witness: a Refresh event's refresh, after the first one, has
\* completed with a discharging battery, an unmuted volume and wifi on.
C5_Witness ==
    /\ AfterRefresh
    /\ event = "Refresh"
    /\ mainPc = "draw"
    /\ sample.battery[0] = COLOR_WARN
    /\ sample.volume[0] = COLOR_NORMAL
    /\ sample.wifi = COLOR_URGENT
    /\ matrix[2 * BAR_GIRTH][0] = COLOR_WARN

\* C6: a slow or hung query never stalls the event loop: while the Refresh
\* handler's samplers are running, the loop can still handle a redraw
\* request and blit the previous matrix.
C6_RedrawWhileSampling ==
    (mainPc = "refresh_sample" /\ event = "Refresh") =>
        ENABLED RedrawRequested

\* C7: shutdown is orderly on every path by which the process ends: the
\* stop flag has been set and the timer thread has finished.
C7_EndsWithTimerJoined ==
    Ended => (done /\ timerPc = "finished")

\* C8: while a RedrawRequested event is handled no sampler is called and
\* the matrix is unchanged; the frame its draw writes is the rotation of
\* the matrix the most recent refresh produced; and once the loop runs only
\* the handling of a Refresh event samples or changes the matrix.
C8_RedrawDoesNotResample ==
    [][/\ event = "RedrawRequested" =>
            /\ matrix' = matrix
            /\ sample' = sample
            /\ failure' = failure
            /\ mainPc' \notin {"refresh_sample", "refresh_write", "panicked"}
            /\ (mainPc = "draw" /\ mainPc' # "draw") =>
                /\ matrix = Composed(sample)
                /\ Shows(frame', matrix)
       /\ (event # "Init" /\ (matrix' # matrix \/ sample' # sample)) =>
            event = "Refresh"]_vars

\* C8 witness: a redraw has drawn the matrix of the last refresh.
C8_Witness ==
    /\ event = "RedrawRequested"
    /\ mainPc = "render"
    /\ sample # NoSample
    /\ sample.mic = COLOR_URGENT
    /\ frame[(BAR_LENGTH - 1 - 19) * REAL_WIDTH] = COLOR_URGENT

C10_BlitSeesCompleteMatrix ==
    [][/\ timerPc' # timerPc => UNCHANGED <<matrix, frame, sample>>
       /\ frame' # frame => mainPc = "draw"
       /\ (mainPc = "draw" /\ mainPc' # "draw") =>
            /\ sample # NoSample
            /\ matrix = Composed(sample)
            /\ Shows(frame', matrix)]_vars

\* C10 witness: the Refresh handler has drawn its matrix while the timer
\* thread has already posted the next Refresh.
C10_Witness ==
    /\ mainPc = "render"
    /\ event = "Refresh"
    /\ queue > 0
    /\ matrix = Composed(sample)
    /\ Shows(frame, matrix)
    /\ sample.bluetooth = COLOR_NORMAL

=============================================================================
